---------------------------- MODULE Spec2Model ----------------------------
(***************************************************************************)
(* A model of the CodeScope front end's live synchronisation code:         *)
(*   - FileTreePanel.tsx: the WebSocket effect (connect, reconnect, close), *)
(*     the react-query poll of the snapshot endpoint, the effect that       *)
(*     copies the poll data into analysisStatus, convertToTreeNodes;        *)
(*   - GraphPanel.tsx: the resolution of edge endpoints and the hand-over   *)
(*     of the edges to d3's forceLink.                                      *)
(* The browser (WebSocket events, timers), react-query and d3 are the       *)
(* environment: their events are actions, their documented behaviour is     *)
(* what the actions do.                                                     *)
(***************************************************************************)
EXTENDS Integers, Sequences, FiniteSets, TLC

(* ------------------------------ bounds -------------------------------- *)
\* Session ids handed out by the backend, 1..NumSessions; 0 is repoId = null.
NumSessions == 2
\* WebSocket objects that exist at the same time (slots, reused once closed).
MaxSocks == 2
\* setTimeout timers pending at the same time (slots, reused once fired).
MaxTimers == 1
\* Push messages received and not yet handled, over all sockets.
MaxPending == 2

\* Levels of folders in a nested structure.
MaxDepth == 2
\* Folders listed in one folder below the root (the root lists up to two).
MaxNestedWidth == 1
\* Entries of the structure's root files array.
MaxRootFiles == 2
\* Calls of convertToTreeNodes on one structure.
MaxCalls == 2
\* Folders at the root of a structure whose rows are clicked.
MaxClickWidth == 1
\* Edges of a graph payload.
MaxEdges == 1
\* The largest coordinate a simulation moves a node to before it has cooled.
MaxCoord == 4
\* Simulations counted on one set of node objects; the count saturates there.
MaxSims == 2

(* ------------------------- program constants -------------------------- *)
MAX_RECONNECT_ATTEMPTS == 5
\* retry: failureCount < 3
MAX_POLL_RETRIES == 3

Sessions == 1..NumSessions
SockIds  == 1..MaxSocks
TimerIds == 1..MaxTimers

\* event.code of a CloseEvent: 1000 normal closure, 1005 no status received
\* (the close frame carried no code, which is what close() without arguments
\* sends), 1006 abnormal closure (no close frame at all).
CloseCodes == {1000, 1005, 1006}

Statuses == {"processing", "completed", "error"}
\* An AnalysisStatus of session s; None is null / undefined.
None == [sess |-> 0, status |-> "none"]
Snapshots(s) == [sess : {s}, status : Statuses]
\* event.data that JSON.parse rejects.
Malformed == [sess |-> 0, status |-> "malformed"]

FreeSock == [st |-> "free", sess |-> 0, wasOpen |-> FALSE, inbox |-> <<>>]

VARIABLES
  mounted,               \* FileTreePanel is mounted
  repoId,                \* useState repoId (0: null)
  analysisStatus,        \* useState analysisStatus
  wsError,               \* useState wsError: "none", "parse", "lost", "failed"
  wsConnected,           \* useState wsConnected
  wsRef,                 \* wsRef.current: a socket slot, 0: null
  reconnectTimeoutRef,   \* reconnectTimeoutRef.current: a pending timer slot, 0: null or fired
  reconnectAttemptsRef,  \* reconnectAttemptsRef.current
  socks,                 \* the WebSocket objects: readyState, the repoId their handlers closed over, unhandled messages
  timers,                \* pending reconnect timers: the repoId connectWebSocket closed over, 0: slot free
  qData,                 \* react-query: data of the query ['repo', repoId]
  qFetch,                \* react-query: "idle", "inflight" (a fetch is running: request sent, or about to be sent again)
  qFail,                 \* react-query: failureCount of the running fetch
  \* history variables (not program state)
  pureRun,               \* every closure since the last open (or the start) was abnormal: not requested by the caller, code # 1000
  pushSince,             \* a push snapshot of the current session was applied since the running poll request was sent
  notFound,              \* the current session's poll got a 404 "Analysis not found"
  \* the file tree (BuilderSpec)
  structure,             \* analysisStatus.structure as the tree is rendered from it
  treeNodes,             \* what convertToTreeNodes(structure) returned at the last render
  rendered,              \* the tree was rendered from structure
  calls,                 \* how many times convertToTreeNodes was called on structure
  expandedFolders,       \* useState expandedFolders: the ids of the expanded folders
  \* the graph panel (GraphSpec)
  variant,               \* which of the two GraphPanel components of the file is mounted: 1 or 2
  payload,               \* the body the graph endpoint answers with: node ids and edges between ids
  graphData,             \* useQuery(['graph', ...]) data
  layout,                \* the layout effect: "none" (not run), "skipped" (returned early), "ok", "error" (it threw)
  simLinks,              \* the links the simulation's link force holds
  appRepoId,             \* App's useState repoId, the repoId prop of GraphPanel (0: null)
  nodePos,               \* the position (x, y) of each rendered node of the current session, Unset: not rendered
  selectedNode,          \* useStore selectedNode
  fx,                    \* the fx, fy of each node object of graphData: Unset (null) or the pinned position
  alphaTarget,           \* the alpha target of the newest simulation, in tenths
  dragging,              \* the node a drag gesture holds, "": none
  running,               \* the simulations whose timer runs on the node objects of graphData
  \* history variable (not program state)
  lastEvent              \* the last user event on a panel: a click on a node, a click on the canvas, a new repoId, a click on a row of the file tree, the start or the end of a drag

connVars == <<mounted, repoId, analysisStatus, wsError, wsConnected, wsRef,
              reconnectTimeoutRef, reconnectAttemptsRef, socks, timers>>
pollVars == <<qData, qFetch, qFail>>
histVars == <<pureRun, pushSince, notFound>>
treeVars == <<structure, treeNodes, rendered, calls, expandedFolders>>
dragVars == <<fx, alphaTarget, dragging>>
graphVars == <<variant, payload, graphData, layout, simLinks, appRepoId, nodePos,
               selectedNode, lastEvent, dragVars, running>>
mainVars == <<connVars, pollVars, histVars>>
panelVars == <<treeVars, graphVars>>
vars == <<mainVars, treeVars, graphVars>>

(* ----------------------------- helpers -------------------------------- *)
Live(s) == socks[s].st \in {"connecting", "open"}
HasFreeSock == \E s \in SockIds : socks[s].st = "free"
HasFreeTimer == \E t \in TimerIds : timers[t] = 0
NewTimer == CHOOSE t \in TimerIds : timers[t] = 0 /\ \A r \in TimerIds : r < t => timers[r] # 0

RECURSIVE SumLen(_, _)
SumLen(ss, n) == IF n = 0 THEN 0 ELSE Len(ss[n].inbox) + SumLen(ss, n - 1)
Pending == SumLen(socks, MaxSocks)

\* WebSocket.close(): CONNECTING or OPEN becomes CLOSING (the close event comes
\* later, as a task); no message event fires once readyState is not OPEN; a
\* second close() does nothing.
Closed(sk) ==
  IF sk.st \in {"connecting", "open"}
  THEN [sk EXCEPT !.st = "closing", !.wasOpen = (sk.st = "open"), !.inbox = <<>>]
  ELSE sk

\* if (wsRef.current) wsRef.current.close()
CloseCurrent(ss, ref) == IF ref # 0 THEN [ss EXCEPT ![ref] = Closed(ss[ref])] ELSE ss

\* if (reconnectTimeoutRef.current) window.clearTimeout(reconnectTimeoutRef.current)
ClearTimeout(ts, ref) == IF ref # 0 THEN [ts EXCEPT ![ref] = 0] ELSE ts

\* new WebSocket(`${WS_BASE_URL}/repo/${repoId}`) with its four handlers
WebSocketFor(r) == [st |-> "connecting", sess |-> r, wasOpen |-> FALSE, inbox |-> <<>>]

(* ------------------------------- Init --------------------------------- *)
\* No structure: analysisStatus?.structure is undefined.
NoStructure == [folders |-> <<>>, files |-> <<>>, defined |-> FALSE]
TreeIdle ==
  /\ structure = NoStructure /\ treeNodes = <<>> /\ rendered = FALSE /\ calls = 0
  /\ expandedFolders = {}

MainInit ==
  /\ mounted = TRUE
  /\ repoId = 0
  /\ analysisStatus = None
  /\ wsError = "none"
  /\ wsConnected = FALSE
  /\ wsRef = 0
  /\ reconnectTimeoutRef = 0
  /\ reconnectAttemptsRef = 0
  /\ socks = [s \in SockIds |-> FreeSock]
  /\ timers = [t \in TimerIds |-> 0]
  /\ qData = None
  /\ qFetch = "idle"
  /\ qFail = 0
  /\ pureRun = TRUE
  /\ pushSince = FALSE
  /\ notFound = FALSE

\* No graph: the query has no data.
NoGraph == [nodes |-> {}, edges |-> <<>>, defined |-> FALSE]
\* The ids a graph payload can name.
NodeIds == {"src", "src/a.py", "src/b.py"}
\* x, y of a node object that has none yet.
Unset == 0 - 1
\* The store's selectedNode: null.
NoSelection == [id |-> "", type |-> "", name |-> "", data |-> "null"]
NoEvent == [kind |-> "none", id |-> ""]
\* GraphPanel before a repoId is set: the query is disabled, nothing is drawn,
\* nothing is selected.
GraphStart ==
  /\ payload = NoGraph /\ graphData = NoGraph
  /\ layout = "none" /\ simLinks = <<>>
  /\ appRepoId = 0
  /\ nodePos = [id \in NodeIds |-> Unset]
  /\ selectedNode = NoSelection
  /\ lastEvent = NoEvent
  /\ fx = [id \in NodeIds |-> Unset] /\ alphaTarget = 0 /\ dragging = ""
  /\ running = 0
GraphIdle == variant = 1 /\ GraphStart

Init == MainInit /\ TreeIdle /\ GraphIdle


(* ------------------- FileTreePanel: WebSocket effect ------------------ *)
\* connectWebSocket() of the effect that ran for repoId r: a new socket in the
\* lowest free slot, stored in wsRef.current. It does not look at the socket
\* wsRef.current held before.
SlotFor(ss) == CHOOSE s \in SockIds : ss[s].st = "free" /\ \A q \in SockIds : q < s => ss[q].st # "free"
connectWebSocket(ss, r) == [ss EXCEPT ![SlotFor(ss)] = WebSocketFor(r)]

\* The cleanup the effect returned (it exists only when the effect ran with a
\* repoId): clears the timer reconnectTimeoutRef holds and closes the socket
\* wsRef holds; neither ref is reset.
CleanupTimers == IF repoId # 0 THEN ClearTimeout(timers, reconnectTimeoutRef) ELSE timers
CleanupSocks == IF repoId # 0 THEN CloseCurrent(socks, wsRef) ELSE socks

\* setRepoId(r) (RepoInput's onAnalysisComplete): React runs the previous
\* effect's cleanup, then the effect with the new repoId; the useQuery observer
\* moves to the query ['repo', r], which has no data and fetches at once.
SetRepoId(r) ==
  /\ mounted
  /\ r > repoId
  /\ HasFreeSock
  /\ LET ts == ClearTimeout(CleanupTimers, reconnectTimeoutRef)
         ss == CloseCurrent(CleanupSocks, wsRef)
     IN /\ timers' = ts
        /\ reconnectTimeoutRef' = 0
        /\ socks' = connectWebSocket(ss, r)
        /\ wsRef' = SlotFor(ss)
  /\ repoId' = r
  /\ qData' = None
  /\ qFetch' = "inflight"
  /\ qFail' = 0
  /\ pushSince' = FALSE
  /\ notFound' = FALSE
  /\ UNCHANGED <<mounted, analysisStatus, wsError, wsConnected, reconnectAttemptsRef,
                 pureRun>>
  /\ UNCHANGED panelVars

\* The component unmounts: the effect's cleanup runs, the component's state is
\* discarded, the query observer is destroyed (no interval, no result is
\* delivered). The refs, the sockets and the timers live on.
Unmount ==
  /\ mounted
  /\ mounted' = FALSE
  /\ timers' = CleanupTimers
  /\ socks' = [s \in SockIds |-> [CleanupSocks[s] EXCEPT !.inbox = <<>>]]
  /\ analysisStatus' = None
  /\ wsError' = "none"
  /\ wsConnected' = FALSE
  /\ qData' = None
  /\ qFetch' = "idle"
  /\ qFail' = 0
  /\ pushSince' = FALSE
  /\ notFound' = FALSE
  /\ UNCHANGED <<repoId, wsRef, reconnectTimeoutRef, reconnectAttemptsRef, pureRun>>
  /\ UNCHANGED panelVars

\* An onopen that leaves the counter alone (used to test C17).
onopenAttempts_Keep(attempts) == attempts

\* ws.onopen: reconnectAttemptsRef.current = 0
onopenAttempts(attempts) == 0

\* ws.onopen. State setters of an unmounted component do nothing; refs are
\* plain objects and are written all the same.
OnOpen(s) ==
  /\ socks[s].st = "connecting"
  /\ socks' = [socks EXCEPT ![s].st = "open"]
  /\ wsError' = IF mounted THEN "none" ELSE wsError
  /\ wsConnected' = IF mounted THEN TRUE ELSE wsConnected
  /\ reconnectAttemptsRef' = onopenAttempts(reconnectAttemptsRef)
  /\ pureRun' = TRUE
  /\ UNCHANGED <<mounted, repoId, analysisStatus, wsRef, reconnectTimeoutRef, timers,
                 pollVars, pushSince, notFound>>
  /\ UNCHANGED panelVars

\* The server sends a message on an open socket: a snapshot of the socket's
\* session, or a payload JSON.parse rejects. (Once the component is unmounted
\* the handler's state setters do nothing: those messages are left out.)
PushArrive(s, m) ==
  /\ mounted
  /\ socks[s].st = "open"
  /\ Pending < MaxPending
  /\ socks' = [socks EXCEPT ![s].inbox = Append(@, m)]
  /\ UNCHANGED <<mounted, repoId, analysisStatus, wsError, wsConnected, wsRef,
                 reconnectTimeoutRef, reconnectAttemptsRef, timers, pollVars, histVars>>
  /\ UNCHANGED panelVars

\* A handler that keeps the snapshot it already holds (used to test C5).
onmessage_KeepHeld(held, data) == IF held = None THEN data ELSE held

\* ws.onmessage, try branch: the snapshot analysisStatus holds after
\* setAnalysisStatus(data).
onmessage(held, data) == data

\* A catch branch that also drops the held snapshot (used to test C15).
catchParse_Clears(held) == [analysisStatus |-> None, wsError |-> "parse"]

\* ws.onmessage, catch branch (JSON.parse threw): setWsError only.
catchParse(held) == [analysisStatus |-> held, wsError |-> "parse"]

\* ws.onmessage: message events of one socket fire in the order received.
OnMessage(s) ==
  /\ mounted
  /\ socks[s].st = "open"
  /\ socks[s].inbox # <<>>
  /\ LET data == Head(socks[s].inbox) IN
       /\ socks' = [socks EXCEPT ![s].inbox = Tail(@)]
       /\ IF data = Malformed
          THEN /\ wsError' = catchParse(analysisStatus).wsError
               /\ analysisStatus' = catchParse(analysisStatus).analysisStatus
               /\ UNCHANGED pushSince
          ELSE /\ analysisStatus' = onmessage(analysisStatus, data)
               /\ wsError' = "none"
               /\ pushSince' = (pushSince \/ (qFetch = "inflight" /\ socks[s].sess = repoId))
  /\ UNCHANGED <<mounted, repoId, wsConnected, wsRef, reconnectTimeoutRef,
                 reconnectAttemptsRef, timers, pollVars, pureRun, notFound>>
  /\ UNCHANGED panelVars

\* An off-by-one retry budget (used to test C2).
ShouldReconnect_OffByOne(code, attempts) == code # 1000 /\ attempts <= MAX_RECONNECT_ATTEMPTS

\* A counter that goes up by two (used to test C19).
nextAttempts_Twice(attempts) == attempts + 2

\* ws.onclose: reconnectAttemptsRef.current += 1
nextAttempts(attempts) == attempts + 1

\* A reconnect test without the budget (used to test C16).
ShouldReconnect_NoBudget(code, attempts) == code # 1000

\* ws.onclose: event.code !== 1000 && reconnectAttemptsRef.current < MAX_RECONNECT_ATTEMPTS
ShouldReconnect(code, attempts) == code # 1000 /\ attempts < MAX_RECONNECT_ATTEMPTS

\* The close codes the browser can report for socket s. A socket the caller
\* closed: 1006 when it was still connecting (the connection is failed), else
\* what the server's close frame carries, nothing (1005, the echo of close()'s
\* empty frame) or 1000, or 1006 when the connection drops first. A socket the
\* server or the network closed: 1006, or 1000 when an open connection is
\* closed normally by the server.
CodesFor(s) ==
  IF socks[s].st = "closing"
  THEN (IF socks[s].wasOpen THEN {1000, 1005, 1006} ELSE {1006})
  ELSE (IF socks[s].st = "open" THEN {1000, 1006} ELSE {1006})

\* ws.onclose (after ws.onerror when the connection failed: what onerror sets,
\* wsError and wsConnected, onclose sets again for every code but 1000). The
\* close event follows the message events received before it.
OnClose(s, code) ==
  /\ socks[s].st \in {"connecting", "open", "closing"}
  /\ socks[s].inbox = <<>>
  /\ code \in CodesFor(s)
  /\ wsRef' = 0
  /\ wsConnected' = IF mounted THEN FALSE ELSE wsConnected
  /\ socks' = [socks EXCEPT ![s] = FreeSock]
  /\ IF ShouldReconnect(code, reconnectAttemptsRef)
     THEN /\ HasFreeTimer
          /\ reconnectAttemptsRef' = nextAttempts(reconnectAttemptsRef)
          /\ wsError' = IF mounted THEN "lost" ELSE wsError
          /\ timers' = [timers EXCEPT ![NewTimer] = socks[s].sess]
          /\ reconnectTimeoutRef' = NewTimer
     ELSE /\ wsError' = IF mounted /\ reconnectAttemptsRef >= MAX_RECONNECT_ATTEMPTS
                        THEN "failed" ELSE wsError
          /\ UNCHANGED <<reconnectAttemptsRef, timers, reconnectTimeoutRef>>
  /\ pureRun' = (pureRun /\ socks[s].st # "closing" /\ code # 1000)
  /\ UNCHANGED <<mounted, repoId, analysisStatus, pollVars, pushSince, notFound>>
  /\ UNCHANGED panelVars

\* The reconnect timer fires: connectWebSocket() of the effect that scheduled
\* it, with that effect's repoId. A fired timer's id is never cleared again
\* with any effect, so reconnectTimeoutRef holding it reads as 0.
TimerFire(t) ==
  /\ timers[t] # 0
  /\ HasFreeSock
  /\ socks' = connectWebSocket(socks, timers[t])
  /\ wsRef' = SlotFor(socks)
  /\ timers' = [timers EXCEPT ![t] = 0]
  /\ reconnectTimeoutRef' = IF reconnectTimeoutRef = t THEN 0 ELSE reconnectTimeoutRef
  /\ UNCHANGED <<mounted, repoId, analysisStatus, wsError, wsConnected, reconnectAttemptsRef,
                 pollVars, histVars>>
  /\ UNCHANGED panelVars

(* ---------------- FileTreePanel: poll of the snapshot endpoint -------- *)
\* An interval that runs whenever there is data (used to test C6).
refetchInterval_Always(data) == data # None

\* refetchInterval: data?.status === 'processing' ? 2000 : false
refetchInterval(data) == data # None /\ data.status = "processing"

\* A retry test that allows one retry more (used to test C20).
retry_OneMore(failureCount, error) ==
  IF error = "notfound" THEN FALSE ELSE failureCount <= MAX_POLL_RETRIES

\* retry: false for 'Analysis not found', else failureCount < 3
retry(failureCount, error) ==
  IF error = "notfound" THEN FALSE ELSE failureCount < MAX_POLL_RETRIES

\* The observer's interval fires (every 2000 ms while refetchInterval gives a
\* number): a fetch starts unless one is running.
IntervalTick ==
  /\ mounted
  /\ repoId # 0
  /\ refetchInterval(qData)
  /\ qFetch = "idle"
  /\ qFetch' = "inflight"
  /\ qFail' = 0
  /\ pushSince' = FALSE
  /\ UNCHANGED <<connVars, qData, pureRun, notFound>>
  /\ UNCHANGED panelVars

\* The request resolves with a snapshot d: the query's data becomes d, and the
\* effect on [repoStructure] copies it into analysisStatus when the data's
\* identity changed (react-query keeps the old object when d is deep-equal).
PollSucceed(d) ==
  /\ mounted
  /\ qFetch = "inflight"
  /\ qData' = d
  /\ qFetch' = "idle"
  /\ qFail' = 0
  /\ pushSince' = FALSE
  /\ analysisStatus' = IF d # qData THEN d ELSE analysisStatus
  /\ UNCHANGED <<mounted, repoId, wsError, wsConnected, wsRef, reconnectTimeoutRef,
                 reconnectAttemptsRef, socks, timers, pureRun, notFound>>
  /\ UNCHANGED panelVars

\* The request fails (response.ok is false, or the network failed): the query
\* function throws, react-query asks retry(failureCount, error) and, on true,
\* counts the failure and sends the request again (after its retry delay,
\* during which the fetch is still running).
PollFail(error) ==
  /\ mounted
  /\ qFetch = "inflight"
  /\ notFound' = (notFound \/ error = "notfound")
  /\ IF retry(qFail, error)
     THEN qFetch' = "inflight" /\ qFail' = qFail + 1
     ELSE qFetch' = "idle" /\ qFail' = 0
  /\ pushSince' = FALSE
  /\ UNCHANGED <<connVars, qData, pureRun>>
  /\ UNCHANGED panelVars

(* ------------------------------- Next --------------------------------- *)
Next ==
  \/ \E r \in Sessions : SetRepoId(r)
  \/ Unmount
  \/ \E s \in SockIds : OnOpen(s)
  \/ \E s \in SockIds : \E m \in Snapshots(socks[s].sess) \cup {Malformed} : PushArrive(s, m)
  \/ \E s \in SockIds : OnMessage(s)
  \/ \E s \in SockIds : \E code \in CloseCodes : OnClose(s, code)
  \/ \E t \in TimerIds : TimerFire(t)
  \/ IntervalTick
  \/ \E d \in Snapshots(repoId) : PollSucceed(d)
  \/ \E e \in {"notfound", "transient"} : PollFail(e)

Spec == Init /\ [][Next]_vars

(* ------------------ FileTreePanel: convertToTreeNodes ------------------ *)
\* A string is a sequence of tokens: "/" is the path separator, every other
\* token is a piece of text without separator ("src/a.py" is <<"src", "/",
\* "a.py">>, "" is <<>>). Indices are 1-based: an index i of the source is i + 1
\* here, and its -1 (not found) is 0.
lastIndexOf(str, tok) ==
  IF \E i \in 1..Len(str) : str[i] = tok
  THEN CHOOSE i \in 1..Len(str) : str[i] = tok /\ \A j \in (i + 1)..Len(str) : str[j] # tok
  ELSE 0

\* filePath.includes('/')
includes(str, tok) == \E i \in 1..Len(str) : str[i] = tok

\* The parent directory cut at the first separator instead of the last.
parentDirOf_FirstSlash(filePath) ==
  IF \E i \in 1..Len(filePath) : filePath[i] = "/"
  THEN SubSeq(filePath, 1, (CHOOSE i \in 1..Len(filePath) :
                              filePath[i] = "/" /\ \A j \in 1..(i - 1) : filePath[j] # "/") - 1)
  ELSE <<>>

\* lastSlashIndex === -1 ? '' : filePath.substring(0, lastSlashIndex)
parentDirOf(filePath) ==
  LET lastSlashIndex == lastIndexOf(filePath, "/")
  IN IF lastSlashIndex = 0 THEN <<>> ELSE SubSeq(filePath, 1, lastSlashIndex - 1)

\* file.path.split('/').pop() || file.path
baseName(path) ==
  LET last == SubSeq(path, lastIndexOf(path, "/") + 1, Len(path))
  IN IF last = <<>> THEN path ELSE last

\* parentPath ? `${parentPath}/${name}` : name
joinPath(parentPath, name) == IF parentPath # <<>> THEN parentPath \o <<"/">> \o name ELSE name

\* The collation order of the tokens: letters are compared first without
\* their case, lower case before upper case.
Rank(tok) == CASE tok = "/" -> 1 [] tok = "a.py" -> 2 [] tok = "b.py" -> 3 [] tok = "B.py" -> 4
               [] tok = "lib" -> 5 [] tok = "src" -> 6

\* a.localeCompare(b): negative, zero or positive
RECURSIVE localeCompare(_, _)
localeCompare(a, b) ==
  IF a = <<>> /\ b = <<>> THEN 0
  ELSE IF a = <<>> THEN -1
  ELSE IF b = <<>> THEN 1
  ELSE IF Rank(Head(a)) < Rank(Head(b)) THEN -1
  ELSE IF Rank(Head(a)) > Rank(Head(b)) THEN 1
  ELSE localeCompare(Tail(a), Tail(b))

\* The comparator of both sort calls: folders before files, then by name.
compareNodes(a, b) ==
  IF a.type = "folder" /\ b.type = "file" THEN -1
  ELSE IF a.type = "file" /\ b.type = "folder" THEN 1
  ELSE localeCompare(a.name, b.name)

\* Array.prototype.sort with compareNodes: a stable sort.
RECURSIVE insertSorted(_, _)
insertSorted(sorted, x) ==
  IF sorted = <<>> THEN <<x>>
  ELSE IF compareNodes(sorted[Len(sorted)], x) <= 0 THEN Append(sorted, x)
  ELSE Append(insertSorted(SubSeq(sorted, 1, Len(sorted) - 1), x), sorted[Len(sorted)])
RECURSIVE sortNodes(_)
sortNodes(list) ==
  IF list = <<>> THEN <<>>
  ELSE insertSorted(sortNodes(SubSeq(list, 1, Len(list) - 1)), list[Len(list)])

\* The tree node of a file of the files array.
fileNode(file) ==
  [id |-> file.path, name |-> baseName(file.path), type |-> "file",
   data |-> [size |-> file.size, hash |-> file.hash]]
fileNodes(files) == [i \in 1..Len(files) |-> fileNode(files[i])]

\* The files processFolder takes as the direct children of currentPath: it
\* filters allFiles (structure.files, the root array) and does not read the
\* folder's own files array.
childFilesOf(allFiles, data, currentPath) ==
  LET isChild(file) == parentDirOf(file.path) = currentPath
  IN SelectSeq(allFiles, isChild)

\* processFolder(folderData, parentPath): folderData is the list of
\* Object.entries, [name, data] in insertion order.
RECURSIVE processFolder(_, _, _)
processFolder(folderData, parentPath, allFiles) ==
  IF folderData = <<>> THEN <<>>
  ELSE [i \in 1..Len(folderData) |->
         LET name == folderData[i].name
             data == folderData[i].data
             currentPath == joinPath(parentPath, name)
             childFiles == fileNodes(childFilesOf(allFiles, data, currentPath))
             childFolders == processFolder(data.folders, currentPath, allFiles)
         IN [id |-> currentPath, name |-> name, type |-> "folder",
             children |-> sortNodes(childFolders \o childFiles)]]

convertToTreeNodes(struct) ==
  IF ~struct.defined THEN <<>>
  ELSE LET allFiles == struct.files
           rootFolders == processFolder(struct.folders, <<>>, allFiles)
           isRoot(file) == ~includes(file.path, "/")
           rootFiles == fileNodes(SelectSeq(allFiles, isRoot))
       IN sortNodes(rootFolders \o rootFiles)

\* ---- the structures the tree is built from
File(path) == [path |-> path, hash |-> "h1", size |-> 120]
FolderNames == {<<"lib">>, <<"src">>}
RootFilePaths ==
  {<<"a.py">>, <<"b.py">>, <<"B.py">>, <<"src">>, <<"src", "/", "a.py">>, <<"src", "/", "b.py">>,
   <<"lib", "/", "a.py">>, <<"src", "/", "lib", "/", "a.py">>}

RECURSIVE SeqsUpTo(_, _)
SeqsUpTo(S, n) ==
  IF n = 0 THEN {<<>>}
  ELSE LET shorter == SeqsUpTo(S, n - 1)
       IN shorter \cup {Append(q, x) : q \in shorter, x \in S}

\* The folders lists of depth at most d under parent, of at most w entries,
\* each folder listing nothing or its own file a.py.
RECURSIVE FolderLists(_, _, _)
FolderEntries(d, parent) ==
  UNION {{[name |-> n,
           data |-> [folders |-> sub, files |-> fs]] :
             sub \in FolderLists(d - 1, joinPath(parent, n), MaxNestedWidth),
             fs \in {<<>>, <<File(joinPath(joinPath(parent, n), <<"a.py">>))>>}}
         : n \in FolderNames}
FolderLists(d, parent, w) ==
  IF d = 0 \/ w = 0 THEN {<<>>}
  ELSE {q \in SeqsUpTo(FolderEntries(d, parent), w) :
          \A i, j \in 1..Len(q) : i # j => q[i].name # q[j].name}

Structures ==
  {[folders |-> fl, files |-> fs, defined |-> TRUE] :
     fl \in FolderLists(MaxDepth, <<>>, 2),
     fs \in {[i \in 1..Len(ps) |-> File(ps[i])] : ps \in SeqsUpTo(RootFilePaths, MaxRootFiles)}}

\* The structure of the end-to-end scenario: folder src lists src/a.py, the
\* root files array is empty.
ExampleStructure ==
  [folders |-> <<[name |-> <<"src">>,
                  data |-> [folders |-> <<>>, files |-> <<File(<<"src", "/", "a.py">>)>>]]>>,
   files |-> <<>>, defined |-> TRUE]

\* A builder that reverses the files array it was given (used to test C18).
inputAfterCall_Reversed(struct) ==
  [struct EXCEPT !.files = [i \in 1..Len(struct.files) |-> struct.files[Len(struct.files) + 1 - i]]]

\* The structure object after convertToTreeNodes(structure) returned: filter,
\* map and the spread build new arrays, sort runs on those, nothing writes to
\* the argument.
inputAfterCall(struct) == struct

\* The file list is rendered (again, on every render of the component):
\* convertToTreeNodes(analysisStatus.structure).
RenderTree ==
  /\ calls < MaxCalls
  /\ calls' = calls + 1
  /\ rendered' = TRUE
  /\ treeNodes' = convertToTreeNodes(structure)
  /\ structure' = inputAfterCall(structure)
  /\ UNCHANGED <<mainVars, graphVars, expandedFolders>>

BuilderInit ==
  /\ MainInit /\ GraphIdle
  /\ structure \in Structures /\ treeNodes = <<>> /\ rendered = FALSE /\ calls = 0
  /\ expandedFolders = {}
BuilderNext == RenderTree
BuilderSpec == BuilderInit /\ [][BuilderNext]_vars


(* ----------------- GraphPanel: the graph query and layout ------------- *)
\* An edge endpoint is the id the backend sent, a reference to a node object,
\* or undefined.
IdRef(id) == [ref |-> "id", id |-> id]
NodeRef(id) == [ref |-> "object", id |-> id]
Undefined == [ref |-> "undefined", id |-> ""]

\* data.nodes.find((n) => n.id === id)
findNode(nodes, id) == IF id \in nodes THEN NodeRef(id) ELSE Undefined

\* The queryFn of the first GraphPanel: every edge becomes
\* {source: find(edge.source), target: find(edge.target), type}; no edge is
\* left out.
resolveEdges(nodes, edges) ==
  [i \in 1..Len(edges) |->
     [source |-> findNode(nodes, edges[i].source.id),
      target |-> findNode(nodes, edges[i].target.id),
      type |-> edges[i].type]]

\* The queryFn of GraphPanel number v: the second returns the body as it is.
queryFn(v, data) ==
  IF v = 1
  THEN [nodes |-> data.nodes, edges |-> resolveEdges(data.nodes, data.edges), defined |-> TRUE]
  ELSE data

\* d3 forceLink's initialize, per endpoint: an object is taken as the node, any
\* other value is looked up by id; a value that no node has as id throws
\* ("node not found").
Resolvable(nodes, end) == end.ref = "object" \/ (end.ref = "id" /\ end.id \in nodes)
linkThrows(nodes, links) ==
  \E i \in 1..Len(links) : ~Resolvable(nodes, links[i].source) \/ ~Resolvable(nodes, links[i].target)
initializedLinks(links) ==
  [i \in 1..Len(links) |->
     [source |-> NodeRef(links[i].source.id), target |-> NodeRef(links[i].target.id),
      type |-> links[i].type]]

\* The x (and y) the queryFn leaves on a node object of a new response: the
\* first GraphPanel leaves the parsed object as it is, the second sets
\* node.x = 0 and node.y = 0.
newNodeX(v) == IF v = 1 THEN Unset ELSE 0

\* The index of node id in the nodes array (the arrays are in id order).
Ord(id) == CASE id = "src" -> 1 [] id = "src/a.py" -> 2 [] OTHER -> 3
indexOf(nodes, id) == Cardinality({n \in nodes : Ord(n) < Ord(id)}) + 1

\* d3 forceSimulation's initializeNodes: a node without x or y gets the
\* position of its index on the initial spiral, any other node keeps its own.
initializeNode(x, i) == IF x = Unset THEN i ELSE x

\* The node object of an id, as the backend describes it.
NodeOf(id) ==
  [id |-> id, type |-> IF id = "src" THEN "folder" ELSE "file", name |-> id, data |-> "meta"]

\* store.ts: setSelectedNode: (node) => set({ selectedNode: node })
setSelectedNode_KeepFirst(held, node) == IF held = NoSelection THEN node ELSE held

setSelectedNode(held, node) == node

\* An effect of GraphPanel is due: React runs it before it handles the next
\* event or response.
EffectPending == graphData.defined /\ layout \in {"none", "rerun"}

\* The graph query resolves with body p (the first fetch of a repoId, the
\* refetch interval or a refetch on window focus). The result is a new object
\* unless it equals the held one structurally, which it does not once d3 has
\* written x, y, vx, vy and index into the held nodes.
FetchGraph(p) ==
  /\ appRepoId # 0
  /\ ~EffectPending
  /\ ~(graphData.defined /\ graphData.nodes = {} /\ queryFn(variant, p) = graphData)
  /\ payload' = p
  /\ graphData' = queryFn(variant, p)
  /\ layout' = "none"
  /\ UNCHANGED <<variant, simLinks, appRepoId, nodePos, selectedNode, lastEvent, dragVars,
                 running, mainVars, treeVars>>

\* The simulations still running on the node objects once React has run the
\* previous effect's cleanup: the first GraphPanel returns () =>
\* simulation.stop(), the second returns nothing.
cleanup(v, n) == IF v = 1 THEN 0 ELSE n

\* forceSimulation(...): the new simulation's timer starts at once.
Started(n) == IF n < MaxSims THEN n + 1 ELSE MaxSims

\* The layout effect runs: on new graphData ("none") or, with the same
\* graphData, on a new selectedNode ("rerun"). Both GraphPanels draw nothing
\* for an empty node list (the second does not mount the svg); otherwise the
\* svg is cleared, the nodes are initialized and all of graphData.edges go to
\* forceLink. New graphData brings new node objects: a
\* simulation or a drag gesture that holds the old objects no longer touches
\* the ones drawn; with the same graphData the objects, their fx and a gesture
\* in progress stay, and the new simulation starts with alpha target 0.
LayoutEffect ==
  /\ EffectPending
  /\ IF layout = "rerun"
     THEN /\ layout' = "ok"
          /\ running' = Started(cleanup(variant, running))
          /\ UNCHANGED <<simLinks, nodePos, fx, dragging>>
     ELSE /\ fx' = [id \in NodeIds |-> Unset]
          /\ dragging' = ""
          /\ IF graphData.nodes = {}
             THEN /\ layout' = "skipped"
                  /\ simLinks' = <<>>
                  /\ nodePos' = IF variant = 1 THEN nodePos ELSE [id \in NodeIds |-> Unset]
                  /\ running' = 0
             ELSE IF linkThrows(graphData.nodes, graphData.edges)
             THEN /\ layout' = "error"
                  /\ simLinks' = <<>>
                  /\ nodePos' = [id \in NodeIds |-> Unset]
                  /\ running' = 1
             ELSE /\ layout' = "ok"
                  /\ simLinks' = initializedLinks(graphData.edges)
                  /\ nodePos' = [id \in NodeIds |->
                                   IF id \in graphData.nodes
                                   THEN initializeNode(newNodeX(variant), indexOf(graphData.nodes, id))
                                   ELSE Unset]
                  /\ running' = 1
  /\ alphaTarget' = 0
  /\ UNCHANGED <<variant, payload, graphData, appRepoId, selectedNode, lastEvent, mainVars, treeVars>>

\* One tick of a running simulation: the forces move the free nodes, a node
\* with fx is put at fx.
Tick ==
  /\ layout = "ok"
  /\ running > 0
  /\ nodePos' = [id \in NodeIds |->
                   IF id \notin graphData.nodes THEN nodePos[id]
                   ELSE IF fx[id] # Unset THEN fx[id]
                   ELSE IF nodePos[id] < MaxCoord THEN nodePos[id] + 1 ELSE nodePos[id]]
  /\ nodePos' # nodePos
  /\ UNCHANGED <<variant, payload, graphData, layout, simLinks, appRepoId, selectedNode,
                 lastEvent, dragVars, running, mainVars, treeVars>>

\* node.on('click'): a click on the circle of node id. A new selectedNode
\* makes the layout effect run again.
ClickNode(id) ==
  /\ layout = "ok"
  /\ dragging = ""
  /\ id \in graphData.nodes
  /\ selectedNode' = setSelectedNode(selectedNode, NodeOf(id))
  /\ layout' = IF selectedNode' # selectedNode THEN "rerun" ELSE layout
  /\ lastEvent' = [kind |-> "node", id |-> id]
  /\ UNCHANGED <<variant, payload, graphData, simLinks, appRepoId, nodePos, dragVars, running,
                 mainVars, treeVars>>

\* A click on the svg outside every circle: the svg has the zoom behaviour
\* only, no click listener is registered on it.
ClickCanvas ==
  /\ layout = "ok"
  /\ lastEvent' = [kind |-> "canvas", id |-> ""]
  /\ UNCHANGED <<variant, payload, graphData, layout, simLinks, appRepoId, nodePos,
                 selectedNode, dragVars, running, mainVars, treeVars>>

\* FileTreePanel's effect calls onRepoIdChange(r), App's setRepoId: GraphPanel
\* gets a new repoId, the query ['graph', r] has no data yet.
RepoIdChange(r) ==
  /\ r > appRepoId
  /\ ~EffectPending
  /\ appRepoId' = r
  /\ payload' = NoGraph
  /\ graphData' = NoGraph
  /\ layout' = "none"
  /\ simLinks' = <<>>
  /\ nodePos' = [id \in NodeIds |-> Unset]
  /\ lastEvent' = [kind |-> "repo", id |-> ""]
  /\ fx' = [id \in NodeIds |-> Unset] /\ alphaTarget' = 0 /\ dragging' = ""
  /\ running' = 0
  /\ UNCHANGED <<variant, selectedNode, mainVars, treeVars>>

\* dragended with the pin left in place.
dragendedFx_Keep(held) == held

\* dragended: d.fx = null; d.fy = null
dragendedFx(held) == Unset

\* The positions a pointer is moved to.
PointerPositions == {0, MaxCoord}

\* drag 'start' on the circle of node id (one pointer: event.active is 0):
\* simulation.alphaTarget(0.3).restart(), then fx = x, fy = y.
dragstarted(id) ==
  /\ layout = "ok"
  /\ dragging = ""
  /\ id \in graphData.nodes
  /\ alphaTarget' = 3
  /\ running' = IF running = 0 THEN 1 ELSE running
  /\ fx' = [fx EXCEPT ![id] = nodePos[id]]
  /\ dragging' = id
  /\ lastEvent' = [kind |-> "dragstart", id |-> id]
  /\ UNCHANGED <<variant, payload, graphData, layout, simLinks, appRepoId, nodePos, selectedNode,
                 mainVars, treeVars>>

\* drag 'drag': fx = event.x, fy = event.y
dragged(p) ==
  /\ dragging # ""
  /\ ~EffectPending
  /\ fx' = [fx EXCEPT ![dragging] = p]
  /\ UNCHANGED <<variant, payload, graphData, layout, simLinks, appRepoId, nodePos, selectedNode,
                 lastEvent, alphaTarget, dragging, running, mainVars, treeVars>>

\* drag 'end' (event.active is 0): simulation.alphaTarget(0), then fx = null,
\* fy = null.
dragended ==
  /\ dragging # ""
  /\ ~EffectPending
  /\ alphaTarget' = 0
  /\ fx' = [fx EXCEPT ![dragging] = dragendedFx(fx[dragging])]
  /\ dragging' = ""
  /\ lastEvent' = [kind |-> "dragend", id |-> dragging]
  /\ UNCHANGED <<variant, payload, graphData, layout, simLinks, appRepoId, nodePos, selectedNode,
                 running, mainVars, treeVars>>

\* A simulation whose alpha has decayed below alphaMin stops its timer; with
\* a raised alpha target it does not.
Cooled ==
  /\ running > 0
  /\ alphaTarget = 0
  /\ ~EffectPending
  /\ running' = running - 1
  /\ UNCHANGED <<variant, payload, graphData, layout, simLinks, appRepoId, nodePos, selectedNode,
                 lastEvent, dragVars, mainVars, treeVars>>

\* ---- the payloads
Payloads ==
  {[nodes |-> ns, edges |-> es, defined |-> TRUE] :
     ns \in SUBSET NodeIds,
     es \in SeqsUpTo([source : {IdRef(x) : x \in NodeIds}, target : {IdRef(x) : x \in NodeIds},
                      type : {"contains"}], MaxEdges)}

GraphInit ==
  /\ MainInit /\ TreeIdle
  /\ variant \in {1, 2}
  /\ GraphStart
GraphNext ==
  \/ \E r \in Sessions : RepoIdChange(r)
  \/ \E p \in Payloads : FetchGraph(p)
  \/ LayoutEffect
  \/ Tick
  \/ \E id \in NodeIds : ClickNode(id)
  \/ ClickCanvas
GraphSpec == GraphInit /\ [][GraphNext]_vars

\* The graph panel with its simulations and drag gestures, on the payloads
\* without edges.
SimPayloads == {p \in Payloads : p.edges = <<>>}
SimNext ==
  \/ \E r \in Sessions : RepoIdChange(r)
  \/ \E p \in SimPayloads : FetchGraph(p)
  \/ LayoutEffect
  \/ Tick
  \/ \E id \in NodeIds : ClickNode(id)
  \/ \E id \in NodeIds : dragstarted(id)
  \/ \E p \in PointerPositions : dragged(p)
  \/ dragended
  \/ Cooled
SimSpec == GraphInit /\ [][SimNext]_vars

(* ------------------- FileTreePanel: clicks on the tree ---------------- *)
\* A folder click that only ever adds the folder.
handleFolderClick_AddOnly(prev, folderId) == prev \cup {folderId}

\* handleFolderClick: the updater of setExpandedFolders copies the set and
\* deletes folderId if the copy has it, adds it otherwise.
handleFolderClick(prev, folderId) ==
  IF folderId \in prev THEN prev \ {folderId} ELSE prev \cup {folderId}

\* handleNodeClick: the object handed to setSelectedNode.
handleNodeClick(node) == [id |-> node.id, type |-> node.type, name |-> node.name]

\* The rows renderNode mounts: the nodes of the root list and, under a folder
\* whose id is in expandedFolders, its children (Collapse with unmountOnExit).
RECURSIVE MountedRows(_, _)
MountedRows(list, expanded) ==
  UNION {{n} \cup (IF n.type = "folder" /\ n.id \in expanded
                   THEN MountedRows(n.children, expanded) ELSE {}) : n \in {list[i] : i \in 1..Len(list)}}

\* ListItem onClick of the row of node n: isFolder ? handleFolderClick(node.id)
\* : handleNodeClick(node). The selection is a new object on every file click,
\* so a GraphPanel that has drawn runs its layout effect again.
onClick(n) ==
  /\ rendered
  /\ n \in MountedRows(treeNodes, expandedFolders)
  /\ IF n.type = "folder"
     THEN /\ expandedFolders' = handleFolderClick(expandedFolders, n.id)
          /\ UNCHANGED <<selectedNode, layout>>
     ELSE /\ selectedNode' = setSelectedNode(selectedNode, handleNodeClick(n))
          /\ layout' = IF layout = "ok" THEN "rerun" ELSE layout
          /\ UNCHANGED expandedFolders
  /\ lastEvent' = [kind |-> n.type, id |-> n.id]
  /\ UNCHANGED <<structure, treeNodes, rendered, calls, variant, payload, graphData, simLinks,
                 appRepoId, nodePos, dragVars, running, mainVars>>

TreeNext ==
  \/ RenderTree
  \/ \E n \in MountedRows(treeNodes, expandedFolders) : onClick(n)
\* The structures the clicks are explored on: one folder at the root.
ClickStructures ==
  {[folders |-> fl, files |-> fs, defined |-> TRUE] :
     fl \in FolderLists(MaxDepth, <<>>, MaxClickWidth),
     fs \in {[i \in 1..Len(ps) |-> File(ps[i])] : ps \in SeqsUpTo(RootFilePaths, MaxRootFiles)}}
TreeInit ==
  /\ MainInit /\ GraphIdle
  /\ structure \in ClickStructures /\ treeNodes = <<>> /\ rendered = FALSE /\ calls = 0
  /\ expandedFolders = {}
TreeSpec == TreeInit /\ [][TreeNext]_vars


(* ============================== claims ================================ *)
NoTimerPending == \A t \in TimerIds : timers[t] = 0
NoLiveSocket == \A s \in SockIds : ~Live(s)
\* The manager's Failed state: the terminal error is shown, nothing is
\* connecting, open or scheduled.
Failed == wsError = "failed" /\ NoTimerPending /\ NoLiveSocket
\* The socket in slot s gets its close event in this step without the caller
\* having called close() on it.
ClosedByPeer(s) == Live(s) /\ socks'[s].st = "free"

\* C1 -- after a caller-initiated close (a new repoId, or the unmount) nothing
\* reconnects: every pending reconnect timer and every connecting or open
\* socket belongs to the current repoId of the mounted component.
C1_NoReconnectAfterCallerClose ==
  /\ \A t \in TimerIds : timers[t] # 0 => (mounted /\ timers[t] = repoId)
  /\ \A s \in SockIds : Live(s) => (mounted /\ socks[s].sess = repoId)

\* C2 as stated -- after 5 consecutive abnormal closures (reconnectAttemptsRef
\* has counted 5 of them and nothing else since the last open) the manager is
\* Failed and no further connection attempt is scheduled or running.
C2_FailedAfterFive ==
  (mounted /\ pureRun /\ reconnectAttemptsRef = MAX_RECONNECT_ATTEMPTS) => Failed

\* C2 as amended -- 5 reconnections are allowed: the abnormal closure that finds
\* 4 counted still schedules a reconnect (the 6th connection attempt), and the
\* abnormal closure that finds 5 counted, the 6th in a row, schedules nothing,
\* creates no socket and reports the terminal error.
C2_FailedAfterSix ==
  [][\A s \in SockIds :
       (mounted /\ pureRun /\ pureRun' /\ ClosedByPeer(s)) =>
         /\ reconnectAttemptsRef = MAX_RECONNECT_ATTEMPTS =>
              /\ timers' = timers
              /\ \A q \in SockIds : Live(q)' => Live(q)
              /\ wsError' = "failed"
              /\ reconnectAttemptsRef' = MAX_RECONNECT_ATTEMPTS
         /\ reconnectAttemptsRef < MAX_RECONNECT_ATTEMPTS =>
              /\ reconnectAttemptsRef' = reconnectAttemptsRef + 1
              /\ \E t \in TimerIds : timers[t] = 0 /\ timers'[t] = socks[s].sess
              /\ wsError' = "lost"]_vars

\* C2 witness: the run of abnormal closures has ended in Failed.
C2_Witness == mounted /\ pureRun /\ reconnectAttemptsRef = MAX_RECONNECT_ATTEMPTS /\ Failed

\* C3 -- at most one socket is connecting or open, it is the one wsRef holds,
\* and it belongs to the current repoId.
C3_AtMostOneLive ==
  /\ Cardinality({s \in SockIds : Live(s)}) <= 1
  /\ \A s \in SockIds : Live(s) => (wsRef = s /\ socks[s].sess = repoId)

\* C4 -- a poll response that resolves after a push snapshot of the same
\* session was applied (the request was sent before) leaves analysisStatus as
\* the push set it.
C4_LatePollKeepsPush ==
  [][(mounted' /\ repoId' = repoId /\ qFetch = "inflight" /\ qFetch' = "idle"
        /\ pushSince /\ analysisStatus.sess = repoId)
     => analysisStatus' = analysisStatus]_vars

\* C5 -- the messages of one socket are applied one by one in the order they
\* arrived: whenever an open socket's queue of unhandled messages changes,
\* either one message was appended and analysisStatus is untouched, or exactly
\* the oldest message was removed and, if valid, it is now analysisStatus.
C5_PushAppliedInOrder ==
  [][\A s \in SockIds :
       (mounted' /\ socks[s].st = "open" /\ socks'[s].st = "open"
          /\ socks'[s].inbox # socks[s].inbox) =>
         \/ /\ Len(socks'[s].inbox) = Len(socks[s].inbox) + 1
            /\ SubSeq(socks'[s].inbox, 1, Len(socks[s].inbox)) = socks[s].inbox
            /\ analysisStatus' = analysisStatus
         \/ /\ socks[s].inbox # <<>>
            /\ socks'[s].inbox = Tail(socks[s].inbox)
            /\ Head(socks[s].inbox) # Malformed => analysisStatus' = Head(socks[s].inbox)
            /\ Head(socks[s].inbox) = Malformed => analysisStatus' = analysisStatus]_vars

\* C5 witness: in the middle of a sequence, the first message of the current
\* session's socket is held (no poll wrote it) and a different one is queued.
C5_Witness ==
  \E s \in SockIds :
    /\ mounted /\ socks[s].st = "open" /\ socks[s].sess = repoId
    /\ Len(socks[s].inbox) = 1
    /\ Head(socks[s].inbox) \in Snapshots(repoId)
    /\ analysisStatus \in Snapshots(repoId)
    /\ analysisStatus # qData
    /\ analysisStatus # Head(socks[s].inbox)

\* C6 -- once the poll data of the session is completed or error, no fetch is
\* running: the interval has stopped and no request is sent.
C6_NoPollWhenTerminal ==
  (mounted /\ qData # None /\ qData.status \in {"completed", "error"}) => qFetch = "idle"

\* C6 witness: a poll response with a terminal status has been received.
C6_Witness ==
  mounted /\ qData \in Snapshots(repoId) /\ qData.status = "error" /\ analysisStatus = qData

\* C7 -- while a socket of the current session is open, no poll request is
\* sent (first or again) and no poll response reaches the store.
OpenForSession == \E s \in SockIds : socks[s].st = "open" /\ socks[s].sess = repoId
C7_NoPollWhileOpen ==
  [][(mounted' /\ repoId' = repoId /\ OpenForSession) =>
       /\ ~(qFetch = "idle" /\ qFetch' = "inflight")
       /\ ~(qFetch = "inflight" /\ qFail' > qFail)
       /\ ~(qFetch = "inflight" /\ qFetch' = "idle" /\ qData' # qData)]_vars

\* C8 -- after a 404 "Analysis not found" no fetch runs for the session again.
C8_NotFoundStopsPolling == (mounted /\ notFound) => qFetch = "idle"


\* ---- the tree read as a graph: its nodes and its contains relation
Elems(q) == {q[i] : i \in 1..Len(q)}
RECURSIVE NodesOf(_)
NodesOf(list) ==
  UNION {{[id |-> n.id, kind |-> n.type]}
           \cup (IF n.type = "folder" THEN NodesOf(n.children) ELSE {}) : n \in Elems(list)}
RECURSIVE EdgesOf(_)
EdgesOf(list) ==
  UNION {IF n.type = "folder"
         THEN {<<n.id, c.id>> : c \in Elems(n.children)} \cup EdgesOf(n.children)
         ELSE {} : n \in Elems(list)}
\* The folders of a folders list, by path, and the files each one lists.
RECURSIVE FolderPaths(_, _)
FolderPaths(folderData, parentPath) ==
  UNION {{joinPath(parentPath, e.name)}
           \cup FolderPaths(e.data.folders, joinPath(parentPath, e.name)) : e \in Elems(folderData)}
RECURSIVE ListedFiles(_, _)
ListedFiles(folderData, parentPath) ==
  UNION {{<<joinPath(parentPath, e.name), f.path>> : f \in Elems(e.data.files)}
           \cup ListedFiles(e.data.folders, joinPath(parentPath, e.name)) : e \in Elems(folderData)}

\* C9 -- every folder of the structure is a folder node; every file listed in
\* the files array of the folder that contains it is a file node with its path
\* as id, contained in that folder; the example gives nodes src, src/a.py and
\* the one edge src -> src/a.py.
C9_ListedFilesAreBuilt ==
  rendered =>
    /\ \A p \in FolderPaths(structure.folders, <<>>) :
         [id |-> p, kind |-> "folder"] \in NodesOf(treeNodes)
    /\ \A pf \in ListedFiles(structure.folders, <<>>) :
         parentDirOf(pf[2]) = pf[1] =>
           /\ [id |-> pf[2], kind |-> "file"] \in NodesOf(treeNodes)
           /\ pf \in EdgesOf(treeNodes)
    /\ structure = ExampleStructure =>
         /\ NodesOf(treeNodes) = {[id |-> <<"src">>, kind |-> "folder"],
                                  [id |-> <<"src", "/", "a.py">>, kind |-> "file"]}
         /\ EdgesOf(treeNodes) = {<<(<<"src">>), (<<"src", "/", "a.py">>)>>}

\* C10 -- the layout gets exactly the payload's edges whose two endpoints are
\* ids of the payload's nodes, and building the graph raises no error.
HasBothEnds(e) == e.source.id \in payload.nodes /\ e.target.id \in payload.nodes
C10_DanglingEdgesDropped ==
  layout \in {"ok", "error"} =>
    /\ layout = "ok"
    /\ simLinks = initializedLinks(SelectSeq(payload.edges, HasBothEnds))

\* C11 -- when the layout is rebuilt for a new snapshot of the session, every
\* node that was rendered before and is in the new node set keeps its position.
C11_PositionsKept ==
  [][(layout = "none" /\ layout' = "ok") =>
       \A id \in graphData.nodes : nodePos[id] # Unset => nodePos'[id] = nodePos[id]]_vars

\* C12 -- after a click on the empty canvas nothing is selected.
C12_CanvasClickClears == lastEvent.kind = "canvas" => selectedNode = NoSelection

\* C13 -- after a click on a node the selection is exactly that node, whatever
\* was selected before: the one selected entity is the last node clicked.
C13_LastClickedSelected == lastEvent.kind = "node" => selectedNode = NodeOf(lastEvent.id)
C13_Witness ==
  /\ lastEvent = [kind |-> "node", id |-> "src/a.py"]
  /\ selectedNode = NodeOf("src/a.py")
  /\ appRepoId = 2

\* C14 -- in the state reached by a change of the repoId nothing is selected.
C14_SwitchClearsSelection == lastEvent.kind = "repo" => selectedNode = NoSelection

\* C15 -- a message JSON.parse rejects changes nothing but the error shown:
\* the held snapshot, wsConnected, the attempt counter, the current socket,
\* the socket's state and the timers are as before; and a valid message that
\* is handled while that error is shown is applied.
HandledHead(s) ==
  /\ mounted' /\ socks[s].st = "open" /\ socks'[s].st = "open"
  /\ socks[s].inbox # <<>> /\ socks'[s].inbox = Tail(socks[s].inbox)
C15_MalformedDropped ==
  [][\A s \in SockIds :
       HandledHead(s) =>
         /\ Head(socks[s].inbox) = Malformed =>
              /\ wsError' = "parse"
              /\ UNCHANGED <<analysisStatus, wsConnected, reconnectAttemptsRef, wsRef,
                             reconnectTimeoutRef, timers, repoId>>
              /\ \A o \in SockIds : socks'[o].st = socks[o].st /\ socks'[o].sess = socks[o].sess
         /\ (Head(socks[s].inbox) # Malformed /\ wsError = "parse") =>
              /\ analysisStatus' = Head(socks[s].inbox)
              /\ wsError' = "none"]_vars
\* C15 witness: a malformed message was dropped while a snapshot was held, the
\* connection is still up and a valid, different message is next.
C15_Witness ==
  \E s \in SockIds :
    /\ mounted /\ wsError = "parse" /\ wsConnected
    /\ socks[s].st = "open" /\ wsRef = s
    /\ analysisStatus \in Snapshots(repoId)
    /\ socks[s].inbox # <<>>
    /\ Head(socks[s].inbox) \in Snapshots(repoId) \ {analysisStatus}

\* C16 -- Failed means the budget is used up with no timer pending and no live
\* socket, and from such a state, as long as the repoId stays the same,
\* whatever happens, no timer is scheduled and no socket is created.
Exhausted ==
  reconnectAttemptsRef >= MAX_RECONNECT_ATTEMPTS /\ NoTimerPending /\ NoLiveSocket
C16_FailedStopsRetrying ==
  /\ [](Failed => Exhausted)
  /\ [][(Exhausted /\ repoId' = repoId) => Exhausted']_vars
\* C16 witness: Failed was reached and events still follow: a poll request is
\* out and a socket the caller closed has not reported its closure yet.
C16_Witness ==
  /\ Failed /\ mounted /\ qFetch = "inflight"
  /\ \E s \in SockIds : socks[s].st = "closing"

\* C17 -- whenever a socket opens, the attempt counter is zero afterwards.
C17_OpenResetsAttempts ==
  [][\A s \in SockIds :
       (socks[s].st = "connecting" /\ socks'[s].st = "open") => reconnectAttemptsRef' = 0]_vars
\* C17 witness: an open socket that a reconnect created (its session is not
\* the current one, so no setRepoId made it), hence after at least one counted
\* closure, and the counter is zero.
C17_Witness ==
  \E s \in SockIds :
    /\ socks[s].st = "open" /\ socks[s].sess # repoId
    /\ reconnectAttemptsRef = 0

\* C19 -- when a live socket is closed and attempts are left, either the
\* closure is taken as abnormal: the counter goes up by exactly one, the error
\* shown is the reconnecting one, exactly one timer is scheduled, for the
\* socket's session, and no socket is created in that step; or it is taken as
\* normal and nothing is counted or scheduled. A socket that never opened, and
\* every closure with a code other than 1000 in a run of abnormal closures, is
\* taken as abnormal. A socket is only created by a new repoId or by a timer
\* that fires, for the timer's session.
Reconnects(s) ==
  /\ reconnectAttemptsRef' = reconnectAttemptsRef + 1
  /\ mounted => wsError' = "lost"
  /\ \E t \in TimerIds :
       /\ timers[t] = 0 /\ timers'[t] = socks[s].sess /\ reconnectTimeoutRef' = t
       /\ \A u \in TimerIds \ {t} : timers'[u] = timers[u]
  /\ \A o \in SockIds : socks'[o].st = "connecting" => socks[o].st = "connecting"
NoReconnect ==
  /\ UNCHANGED <<reconnectAttemptsRef, timers, reconnectTimeoutRef, wsError>>
  /\ \A o \in SockIds : socks'[o].st = "connecting" => socks[o].st = "connecting"
C20_BoundedPollRetries ==
  /\ [](qFail <= MAX_POLL_RETRIES)
  /\ [][qFail' > qFail =>
          /\ qFail' = qFail + 1
          /\ qFail < MAX_POLL_RETRIES
          /\ qFetch = "inflight" /\ qFetch' = "inflight"]_vars
\* C20 witness: the third retry of a request is out.
C20_Witness == mounted /\ qFetch = "inflight" /\ qFail = MAX_POLL_RETRIES /\ ~notFound

RECURSIVE DirectOnly(_, _)
DirectOnly(list, parentPath) ==
  \A n \in Elems(list) :
    /\ n.id = parentPath \o (IF parentPath = <<>> THEN <<>> ELSE <<"/">>) \o n.name
    /\ \A i \in 1..Len(n.name) : n.name[i] # "/"
    /\ n.type = "folder" => DirectOnly(n.children, n.id)
C21_DirectContainment == rendered => DirectOnly(treeNodes, <<>>)
\* C21 witness: a file two folders deep is in the tree, under the inner folder.
C21_Witness ==
  /\ rendered
  /\ <<(<<"src", "/", "lib">>), (<<"src", "/", "lib", "/", "a.py">>)>> \in EdgesOf(treeNodes)
  /\ <<(<<"src">>), (<<"src", "/", "a.py">>)>> \in EdgesOf(treeNodes)

\* The order of the tokens by UTF-16 code unit: upper case before lower case.
codeUnit(tok) == CASE tok = "/" -> 1 [] tok = "B.py" -> 2 [] tok = "a.py" -> 3 [] tok = "b.py" -> 4
                   [] tok = "lib" -> 5 [] tok = "src" -> 6
RECURSIVE lexLeq(_, _)
lexLeq(a, b) ==
  IF a = <<>> THEN TRUE
  ELSE IF b = <<>> THEN FALSE
  ELSE IF codeUnit(Head(a)) # codeUnit(Head(b)) THEN codeUnit(Head(a)) < codeUnit(Head(b))
  ELSE lexLeq(Tail(a), Tail(b))
RECURSIVE FoldersFirst(_)
FoldersFirst(list) ==
  /\ \A i, j \in 1..Len(list) : (i < j /\ list[i].type = "file") => list[j].type = "file"
  /\ \A n \in Elems(list) : n.type = "folder" => FoldersFirst(n.children)
RECURSIVE LexSorted(_)
LexSorted(list) ==
  /\ \A i, j \in 1..Len(list) :
       (i < j /\ list[i].type = list[j].type) => lexLeq(list[i].name, list[j].name)
  /\ \A n \in Elems(list) : n.type = "folder" => LexSorted(n.children)
\* C22 -- in the root list and in every children list of the built tree all
\* folders come before all files, and entries of the same kind are in
\* non-decreasing lexicographic order of name.
C22_FoldersFirstThenLexicographic ==
  rendered => FoldersFirst(treeNodes) /\ LexSorted(treeNodes)
\* The part of C22 that holds: folders before files in every list.
C22_FoldersFirst == rendered => FoldersFirst(treeNodes)

\* The ids of the nodes of a tree, one entry per node, in document order.
RECURSIVE IdsOf(_)
IdsOf(list) ==
  IF list = <<>> THEN <<>>
  ELSE LET n == Head(list)
       IN <<n.id>> \o (IF n.type = "folder" THEN IdsOf(n.children) ELSE <<>>) \o IdsOf(Tail(list))
Distinct(q) == \A i, j \in 1..Len(q) : i # j => q[i] # q[j]
\* The structures whose files array names each path once and names no folder.
DistinctPaths(struct) ==
  /\ Distinct([i \in 1..Len(struct.files) |-> struct.files[i].path])
  /\ \A f \in Elems(struct.files) : f.path \notin FolderPaths(struct.folders, <<>>)
\* C23 -- no two nodes of the built tree, folder or file, at any depth, have
\* the same id, whatever the input structure.
C23_UniqueIds == rendered => Distinct(IdsOf(treeNodes))
\* The part of C23 that holds: ids are unique when the files array names each
\* path once and no path of it is a folder's path.
C23_UniqueIdsOfDistinctPaths ==
  (rendered /\ DistinctPaths(structure)) => Distinct(IdsOf(treeNodes))

\* The number of nodes of a tree with the given id.
Occurrences(path) == Cardinality({i \in 1..Len(IdsOf(treeNodes)) : IdsOf(treeNodes)[i] = path})
\* C28 -- every file of the structure's files array is exactly one node of the
\* built tree: a root entry when its path has no separator, otherwise a child
\* of the folder named by its parent directory.
C28_EveryFileOnce ==
  rendered =>
    \A f \in Elems(structure.files) :
      /\ Occurrences(f.path) = 1
      /\ IF includes(f.path, "/")
         THEN <<parentDirOf(f.path), f.path>> \in EdgesOf(treeNodes)
         ELSE \E n \in Elems(treeNodes) : n.id = f.path /\ n.type = "file"
\* The part of C28 that holds: a file whose parent directory is a folder of
\* the structure (or the root) is a node wherever it is listed.
C28_FilesOfKnownFoldersBuilt ==
  rendered =>
    \A f \in Elems(structure.files) :
      (parentDirOf(f.path) \in FolderPaths(structure.folders, <<>>) \cup {<<>>})
        => [id |-> f.path, kind |-> "file"] \in NodesOf(treeNodes)

\* C25 -- a reconnect timer pending when the repoId changes or the component
\* unmounts is cancelled, and after the teardown no reconnect timer is pending:
\* every pending timer was scheduled for the current repoId of the mounted
\* component.
C25_NoTimerAfterTeardown ==
  \A t \in TimerIds : timers[t] # 0 => (mounted /\ timers[t] = repoId)

\* C26 -- the retry budget is per session: when a new repoId is set, its first
\* connection attempt starts with reconnectAttemptsRef at zero, whatever the
\* previous session counted.
C26_NewSessionStartsAtZero ==
  [][repoId' # repoId => reconnectAttemptsRef' = 0]_vars

\* C27 -- the held snapshot belongs to the current session: once the repoId
\* has changed, analysisStatus is not a snapshot of another repoId, and no
\* push message or poll response of another repoId is stored.
C27_SnapshotOfCurrentSession ==
  (mounted /\ analysisStatus # None) => analysisStatus.sess = repoId

\* C29 -- a click on a folder row only toggles that folder's id in
\* expandedFolders and leaves the selection alone; a click on a file row only
\* sets the selection to that file's id, type and name and leaves
\* expandedFolders alone; a second click on the same folder restores the set.
C29_TreeClicksAreFramed ==
  /\ [][(calls' = calls) =>
          /\ lastEvent'.kind = "folder" =>
               /\ selectedNode' = selectedNode
               /\ expandedFolders' \ expandedFolders \in {{}, {lastEvent'.id}}
               /\ expandedFolders \ expandedFolders' \in {{}, {lastEvent'.id}}
               /\ (lastEvent'.id \in expandedFolders') = (lastEvent'.id \notin expandedFolders)
          /\ lastEvent'.kind = "file" =>
               /\ expandedFolders' = expandedFolders
               /\ \E n \in MountedRows(treeNodes, expandedFolders) :
                    /\ n.type = "file" /\ n.id = lastEvent'.id
                    /\ selectedNode' = [id |-> n.id, type |-> "file", name |-> n.name]]_vars
  /\ [](\A n \in MountedRows(treeNodes, expandedFolders) :
          n.type = "folder" =>
            handleFolderClick(handleFolderClick(expandedFolders, n.id), n.id) = expandedFolders)
\* C29 witness: a folder was expanded and a file under it was selected, with
\* the folder still expanded.
C29_Witness ==
  /\ expandedFolders = {<<"src">>}
  /\ selectedNode.type = "file"
  /\ selectedNode.id = <<"src", "/", "a.py">>
  /\ lastEvent.kind = "file"

\* C24 -- a node is pinned exactly while it is dragged: the start of a drag
\* sets its fx to its position and raises the alpha target, a move sets fx to
\* the pointer position with the target still raised, the end clears fx and
\* puts the target back to 0; with no drag in progress no node has fx.
C24_PinnedWhileDragged ==
  /\ [][/\ (dragging = "" /\ dragging' # "") =>
             (fx'[dragging'] = nodePos[dragging'] /\ alphaTarget' = 3)
        /\ (dragging # "" /\ dragging' = dragging /\ fx' # fx) =>
             (fx'[dragging] \in PointerPositions /\ alphaTarget' = 3)
        /\ (dragging # "" /\ dragging' = "") =>
             ((\A id \in NodeIds : fx'[id] = Unset) /\ alphaTarget' = 0)]_vars
  /\ [](\A id \in NodeIds : (fx[id] # Unset) <=> (dragging = id))
  /\ [](dragging = "" => alphaTarget = 0)
\* C24 witness: a node was dragged to a pointer position, the simulation put
\* it there, and the drag has ended.
C24_Witness ==
  /\ lastEvent = [kind |-> "dragend", id |-> "src/a.py"]
  /\ dragging = ""
  /\ nodePos["src/a.py"] = 0
  /\ nodePos["src"] = MaxCoord
  /\ alphaTarget = 0
  /\ \A id \in NodeIds : fx[id] = Unset

\* C30 -- at most one simulation runs on the node objects at any time: a
\* rebuild of the view stops the previous simulation.
C30_OneSimulation == running <= 1

=============================================================================
